---------------------------- MODULE Spec2Model ----------------------------
(***************************************************************************)
(* Model of the browser automation engine of sunday1_ai_browser_agent:     *)
(* services/browser.py (BrowserController, run_workflow) and the two HTTP  *)
(* endpoints of routers/interact.py.                                       *)
(*                                                                         *)
(* One engine instance (self) is modelled together with the resources the  *)
(* driver has handed out (live).  Every awaited browser operation may      *)
(* fail; the failures are inputs chosen by the environment.                *)
(***************************************************************************)
EXTENDS Integers, Sequences, FiniteSets, TLC

\* ------------------------------------------------------------------ bounds
MaxActions == 2     \* longest action list handed to execute_actions
MaxStarts == 2      \* sessions one behaviour may launch
MaxFallbacks == 2   \* longest "fallbacks" list of an action
MaxLLMActions == 2  \* longest "actions" list of an interpretation
MaxTime == 3        \* last second of the clock
MaxSteps == 2       \* actions one timed run completes

\* ------------------------------------------------------------- vocabulary
None == 0

\* the six _handle_<type> methods of BrowserController
Handlers == {"navigate", "input", "click", "submit", "scroll", "wait"}

\* the types of the actions the callers hand over: one whose handler goes to
\* the page at once, one whose handler locates an element first, the one
\* whose handler may only sleep, and "unknown", which is what
\* action.get("type", "unknown") reads for a missing type and has no handler
ActionTypes == {"navigate", "click", "wait", "unknown"}

\* the four session references, in the order close() releases them
ReleaseOrder == <<"page", "context", "browser", "playwright">>

Kinds == {"page", "context", "browser", "playwright"}

\* the releases that raise during one close(): none, one of them, all of them
FailSets == {{}} \cup {{k} : k \in Kinds} \cup {Kinds}

\* the steps of start(), in order; 0 stands for "no step fails"
StartSteps == <<"driver", "launch", "new_context", "init_script", "new_page">>

VARIABLES
    self,        \* the engine's references: [playwright, browser, context, page]
    constructed, \* a BrowserController object exists
    live,        \* resources created by the driver and not yet released: <<kind, id>>
    nextId,      \* sessions launched so far (ids of the resources of a start())
    closeLog,    \* release attempts of the latest close(): <<[kind, id, ok]>>
    closeHeld,   \* the kinds the latest close() found held, hence had to release
    created,     \* the resources the latest start() created
    caller,      \* "direct" | "run_workflow" | "interact" | "actions"
    pc,          \* position of the caller
    actions,     \* the action list of the current execute_actions call
    idx,         \* number of actions the loop has consumed
    results,     \* the results dict of the current execute_actions call
    dispatched,  \* indices (1-based) of the actions whose handler was looked up and run
    failedAt,    \* index (1-based) of the first action that failed in this run, or 0
    captchaSeen, \* a CAPTCHA marker was in the page when that action failed
    outcome,     \* how lastOp ended: "none" | "returned" | "raised"
    lastOp,      \* the latest call of start, close or execute_actions that ended
    teardown,    \* the entry point's finally clause has called controller.close()
    response,    \* what the entry point hands back: "none" | "result" | "error"
                 \* (the except clause's answer) | "http_400" | "raised"
    closeStreak, \* close() calls made in a row by the direct caller (capped at 2)
    lastClosed,  \* the number of sessions launched when close() last ran, or 0
    call,        \* the latest handler call examined on its own: action, page, outcome
    events,      \* what the latest loop iteration or except clause did, in order
    parse,       \* the latest parse_command call examined on its own
    timing       \* the clock, the engines' timestamps and the screenshot files

engineVars == <<self, constructed, live, nextId, closeLog, closeHeld, created,
                lastClosed>>
runVars == <<actions, idx, results, dispatched, failedAt, captchaSeen, events>>
callVars == <<caller, pc, outcome, lastOp, teardown, response, closeStreak>>
vars == <<self, constructed, live, nextId, closeLog, closeHeld, created, caller, pc, actions, idx,
          results, dispatched, failedAt, captchaSeen, outcome, lastOp, teardown,
          response, closeStreak, lastClosed, call, events, parse, timing>>

\* what the specifications that examine one part on its own work on
probeVars == <<call, parse, timing>>

\* no parse_command call has been examined
NoParse == [state |-> "none", interpretation |-> <<>>, out |-> <<>>]

\* no handler call has been examined
NoCall == [state |-> "none", action |-> <<>>, present |-> {}, out |-> <<>>]

\* ------------------------------------------------------------ the session
\* __init__: all four references are None
NoSession == [playwright |-> None, browser |-> None, context |-> None, page |-> None]

\* page.is_closed(): the page object is held but the driver no longer has it
IsClosed(lv, p) == <<"page", p>> \notin lv

\* `self.page and not self.page.is_closed()`
PageOpen(s, lv) == s.page # None /\ ~IsClosed(lv, s.page)

\* what the driver tears down with a resource: a context takes its pages
\* with it, a browser its contexts, the driver its browsers
Owned(k) ==
    CASE k = "page" -> {"page"}
      [] k = "context" -> {"page", "context"}
      [] k = "browser" -> {"page", "context", "browser"}
      [] k = "playwright" -> Kinds

Release(lv, k, id) == lv \ {<<o, id>> : o \in Owned(k)}


\* one guarded release of close(): `if self.<k>: await self.<k>.close()`
HeldBy(s, lv, k) == IF k = "page" THEN PageOpen(s, lv) ELSE s[k] # None

\* the try block of close(): the releases in order; the first one that raises
\* (its kind is in bad) ends the block, the except clause only logs
RECURSIVE CloseFrom(_, _, _, _, _, _)
CloseFrom(s, lv, bad, n, log, held) ==
    IF n > Len(ReleaseOrder)
    THEN [live |-> lv, log |-> log, held |-> held]
    ELSE LET k == ReleaseOrder[n] IN
         IF ~HeldBy(s, lv, k)
         THEN CloseFrom(s, lv, bad, n + 1, log, held)
         ELSE IF k \in bad
              THEN [live |-> lv,
                    log |-> Append(log, [kind |-> k, id |-> s[k], ok |-> FALSE]),
                    held |-> held \cup {j \in n..Len(ReleaseOrder) :
                                            HeldBy(s, lv, ReleaseOrder[j])}]
              ELSE CloseFrom(s, Release(lv, k, s[k]), bad, n + 1,
                             Append(log, [kind |-> k, id |-> s[k], ok |-> TRUE]),
                             held \cup {n})

\* close() whose reset of the references sits in the try block, not in finally
CloseResetInTry(s, lv, bad) ==
    LET r == CloseFrom(s, lv, bad, 1, <<>>, {}) IN
    [self |-> IF \E j \in 1..Len(r.log) : ~r.log[j].ok THEN s ELSE NoSession,
     raised |-> FALSE,
     live |-> r.live,
     log |-> r.log,
     held |-> {ReleaseOrder[j] : j \in r.held}]

\* close(): try the releases, swallow the exception (`except Exception` only
\* logs), finally clear all four references.  bad: the kinds whose release
\* raises.
Close(s, lv, bad) ==
    LET r == CloseFrom(s, lv, bad, 1, <<>>, {}) IN
    [self |-> NoSession,
     raised |-> FALSE,
     live |-> r.live,
     log |-> r.log,
     held |-> {ReleaseOrder[j] : j \in r.held}]

\* what each step of start() stores on success
StepCreates == <<"playwright", "browser", "context", "none", "page">>

\* the try block of start() from step n on; failStep is the step that raises
RECURSIVE StartFrom(_, _, _, _, _)
StartFrom(s, lv, id, n, failStep) ==
    IF n > Len(StartSteps)
    THEN [self |-> s, live |-> lv, raised |-> FALSE]
    ELSE IF n = failStep
         THEN [self |-> s, live |-> lv, raised |-> TRUE]
         ELSE LET k == StepCreates[n] IN
              IF k = "none"
              THEN StartFrom(s, lv, id, n + 1, failStep)
              ELSE StartFrom([s EXCEPT ![k] = id], lv \cup {<<k, id>>}, id,
                             n + 1, failStep)

\* start(): on an exception close() runs and the exception is re-raised
Start(s, lv, id, failStep, bad) ==
    LET t == StartFrom(s, lv, id, 1, failStep)
        made == {<<k, id>> : k \in Kinds} \cap t.live
    IN  IF t.raised
        THEN LET c == Close(t.self, t.live, bad) IN
             [self |-> c.self, live |-> c.live, raised |-> TRUE,
              closed |-> TRUE, log |-> c.log, held |-> c.held, created |-> made]
        ELSE [self |-> t.self, live |-> t.live, raised |-> FALSE,
              closed |-> FALSE, log |-> <<>>, held |-> {}, created |-> made]

\* ------------------------------------------------------- execute_actions
\* a results dict that starts out unsuccessful
InitResultsPessimistic ==
    [success |-> FALSE, actions |-> <<>>, screenshots |-> <<>>,
     final_url |-> None, status |-> "none", error |-> "none"]

\* the results dict as execute_actions creates it (duration aside)
InitResults ==
    [success |-> TRUE, actions |-> <<>>, screenshots |-> <<>>,
     final_url |-> None, status |-> "none", error |-> "none"]

\* the screenshots one loop iteration may take; fails \subseteq ShotTags names
\* those whose page.screenshot() raises
ShotTags == {"action", "failed", "step", "error_final"}

\* one thing an iteration does: the inter-action delay ("delay"), the call of a
\* handler ("dispatch", with the action's type) or the start of a screenshot
\* capture ("shot", with its tag); open tells whether the page was open then
Event(kind, tag, open) ==
    <<kind, tag, open>>

\* the screenshot failures one iteration is checked with: none, each alone,
\* a failing screenshot followed by a failing error_final one, all
ShotFailSets ==
    {{}, ShotTags} \cup {{g} : g \in ShotTags}
        \cup {{g, "error_final"} : g \in {"action", "step"}}

\* a handler can complete only for a type that has a handler, and, since all
\* handlers but the sleeping `wait` drive the page, only on an open page
CanSucceed(type, open) == type \in Handlers /\ (open \/ type = "wait")

\* a dispatcher that passes over an action whose type has no handler
ExecuteSingleActionSkipsUnknown(type, handlerOk, openAfter, fails) ==
    LET called == IF type \in Handlers
                  THEN <<Event("dispatch", type, openAfter)>> ELSE <<>> IN
    IF type \in Handlers /\ ~handlerOk
    THEN [raised |-> TRUE,
          result |-> [action |-> type, success |-> FALSE, error |-> "handler_error",
                      screenshot |-> "none"],
          events |-> called]
    ELSE [raised |-> FALSE,
          result |-> [action |-> type, success |-> TRUE, error |-> "none",
                      screenshot |-> "none"],
          events |-> called]

\* a dispatcher that calls a failing handler a second time before giving up
ExecuteSingleActionRetries(type, handlerOk, openAfter, fails) ==
    LET result == [action |-> type, success |-> FALSE, error |-> "none",
                   screenshot |-> "none"]
        called == <<Event("dispatch", type, openAfter)>>
    IN  IF type \notin Handlers
        THEN [raised |-> TRUE, result |-> [result EXCEPT !.error = "unsupported"],
              events |-> <<>>]
        ELSE IF ~handlerOk
             THEN [raised |-> TRUE,
                   result |-> [result EXCEPT !.error = "handler_error"],
                   events |-> called \o called]
             ELSE [raised |-> FALSE, result |-> [result EXCEPT !.success = TRUE],
                   events |-> called]

\* _execute_single_action(action).  handlerOk: the handler returns instead of
\* raising; openAfter: the page is open once the handler is done.
\* Returns the result dict and whether the call raised.
ExecuteSingleAction(type, handlerOk, openAfter, fails) ==
    LET result == [action |-> type, success |-> FALSE, error |-> "none",
                   screenshot |-> "none"]
        called == <<Event("dispatch", type, openAfter)>>
        onExcept(res, err, evs) ==
            \* except: record the error, best-effort failed_<type> screenshot, raise
            [raised |-> TRUE,
             result |-> [res EXCEPT !.error = err,
                                    !.screenshot =
                                        IF openAfter /\ "failed" \notin fails
                                        THEN "failed" ELSE res.screenshot],
             events |-> IF openAfter
                        THEN Append(evs, Event("shot", "failed", openAfter))
                        ELSE evs]
    IN  IF type \notin Handlers
        THEN onExcept(result, "unsupported", <<>>)
        ELSE IF ~handlerOk
             THEN onExcept(result, "handler_error", called)
             ELSE LET ok == [result EXCEPT !.success = TRUE] IN
                  IF ~openAfter
                  THEN [raised |-> FALSE, result |-> ok, events |-> called]
                  ELSE LET shot == Append(called, Event("shot", "action", openAfter)) IN
                       IF "action" \in fails
                       THEN onExcept(ok, "screenshot_error", shot)
                       ELSE [raised |-> FALSE,
                             result |-> [ok EXCEPT !.screenshot = "action"],
                             events |-> shot]

\* an except clause that records the error but leaves success as it was
EngineExceptKeepsSuccess(res, err, open, fails) ==
    LET upd == [res EXCEPT !.error = err, !.status = "failed"]
        evs == IF open THEN <<Event("shot", "error_final", open)>> ELSE <<>> IN
    IF open /\ "error_final" \notin fails
    THEN [raised |-> FALSE,
          results |-> [upd EXCEPT !.screenshots = Append(@, <<"error_final", 0>>)],
          events |-> evs]
    ELSE [raised |-> open, results |-> upd, events |-> evs]

\* an except clause that takes its screenshot without looking at the page
EngineExceptUnguardedShot(res, err, open, fails) ==
    LET upd == [res EXCEPT !.success = FALSE, !.error = err, !.status = "failed"]
        evs == <<Event("shot", "error_final", open)>> IN
    IF open /\ "error_final" \notin fails
    THEN [raised |-> FALSE,
          results |-> [upd EXCEPT !.screenshots = Append(@, <<"error_final", 0>>)],
          events |-> evs]
    ELSE [raised |-> TRUE, results |-> upd, events |-> evs]

\* the except clause of execute_actions: the run is marked failed and one
\* error_final screenshot is taken if the page is open; that screenshot is
\* not guarded, so its failure leaves execute_actions as an exception
EngineExcept(res, err, open, fails) ==
    LET upd == [res EXCEPT !.success = FALSE, !.error = err, !.status = "failed"] IN
    IF open
    THEN IF "error_final" \in fails
         THEN [raised |-> TRUE, results |-> upd,
               events |-> <<Event("shot", "error_final", open)>>]
         ELSE [raised |-> FALSE,
               results |-> [upd EXCEPT !.screenshots =
                                Append(@, <<"error_final", 0>>)],
               events |-> <<Event("shot", "error_final", open)>>]
    ELSE [raised |-> FALSE, results |-> upd, events |-> <<>>]

\* a loop that records a failed action and carries on with the next one
LoopBodyContinue(res, type, n, handlerOk, openAfter, captcha, fails) ==
    LET r == ExecuteSingleAction(type, handlerOk, openAfter, fails) IN
    [go |-> "next",
     results |-> [res EXCEPT !.actions = Append(@, r.result),
                             !.success = @ /\ ~r.raised],
     error |-> "none",
     events |-> <<Event("delay", "none", openAfter)>> \o r.events]

\* a loop that dispatches before it delays and tags the step screenshot by the
\* 0-based index
LoopBodyOffByOne(res, type, n, handlerOk, openAfter, captcha, fails) ==
    LET r == ExecuteSingleAction(type, handlerOk, openAfter, fails)
        evs == Append(r.events, Event("delay", "none", openAfter))
        step == Append(evs, Event("shot", "step", openAfter))
    IN
    IF r.raised
    THEN [go |-> "except", results |-> res, error |-> r.result.error, events |-> evs]
    ELSE LET app == [res EXCEPT !.actions = Append(@, r.result)] IN
         IF ~openAfter
         THEN [go |-> "next", results |-> app, error |-> "none", events |-> evs]
         ELSE IF "step" \in fails
              THEN [go |-> "except", results |-> app,
                    error |-> "screenshot_error", events |-> step]
              ELSE [go |-> "next",
                    results |-> [app EXCEPT !.screenshots =
                                     Append(@, <<"step", Len(res.actions)>>)],
                    error |-> "none", events |-> step]

\* one iteration of `for action in actions` for the n-th action (1-based):
\* how the loop goes on ("next", "break", "except") and the results so far
LoopBody(res, type, n, handlerOk, openAfter, captcha, fails) ==
    LET r == ExecuteSingleAction(type, handlerOk, openAfter, fails)
        evs == <<Event("delay", "none", openAfter)>> \o r.events
        step == Append(evs, Event("shot", "step", openAfter))
    IN
    IF r.raised
    THEN [go |-> "except", results |-> res, error |-> r.result.error, events |-> evs]
    ELSE LET app == [res EXCEPT !.actions = Append(@, r.result)] IN
         IF ~r.result.success
         THEN [go |-> "break",
               results |-> [app EXCEPT !.success = FALSE,
                                       !.status = IF captcha THEN "captcha_required"
                                                  ELSE @],
               error |-> "none", events |-> evs]
         ELSE IF ~openAfter
              THEN [go |-> "next", results |-> app, error |-> "none", events |-> evs]
              ELSE IF "step" \in fails
                   THEN [go |-> "except", results |-> app,
                         error |-> "screenshot_error", events |-> step]
                   ELSE [go |-> "next",
                         results |-> [app EXCEPT !.screenshots =
                                          Append(@, <<"step", Len(app.actions)>>)],
                         error |-> "none", events |-> step]

\* the action lists a caller may hand over
ActionLists == UNION {[1..n -> ActionTypes] : n \in 0..MaxActions}

\* where the caller goes on once execute_actions has ended
AfterEA(c) ==
    CASE c = "direct" -> "ended"
      [] c = "run_workflow" -> "rw_finally"
      [] c = "interact" -> "in_respond"
      [] c = "actions" -> "ac_respond"

\* `if self.page and not self.page.is_closed(): results["final_url"] = self.page.url`
\* (the URL of a page is written as the page's id)
WithFinalUrl(res, s, lv) ==
    IF PageOpen(s, lv) THEN [res EXCEPT !.final_url = s.page] ELSE res

\* entry of execute_actions(acts) on an engine whose references are s: the
\* results dict is created and, if there is no open page, start() runs; a
\* failing start() is caught by the except clause (the page is None by then)
EA_Enter(c, s, acts) ==
    /\ actions' = acts
    /\ idx' = 0
    /\ dispatched' = <<>>
    /\ failedAt' = 0
    /\ captchaSeen' = FALSE
    /\ closeStreak' = 0
    /\ UNCHANGED probeVars
    /\ IF PageOpen(s, live)
       THEN /\ self' = s
            /\ results' = InitResults
            /\ events' = <<>>
            /\ pc' = "loop"
            /\ UNCHANGED <<live, nextId, closeLog, closeHeld, created, outcome, lastOp,
                           lastClosed>>
       ELSE /\ nextId < MaxStarts
            /\ \E failStep \in 0..Len(StartSteps) :
               \E bad \in IF failStep = 0 THEN {{}} ELSE FailSets :
                 LET st == Start(s, live, nextId + 1, failStep, bad) IN
                 /\ self' = st.self
                 /\ live' = st.live
                 /\ nextId' = nextId + 1
                 /\ created' = st.created
                 /\ closeLog' = IF st.closed THEN st.log ELSE closeLog
                 /\ closeHeld' = IF st.closed THEN st.held ELSE closeHeld
                 /\ lastClosed' = IF st.closed THEN nextId + 1 ELSE lastClosed
                 /\ IF st.raised
                    THEN LET e == EngineExcept(InitResults, "start_error",
                                               PageOpen(st.self, st.live), {}) IN
                         /\ results' = e.results
                         /\ events' = e.events
                         /\ outcome' = IF e.raised THEN "raised" ELSE "returned"
                         /\ lastOp' = "execute_actions"
                         /\ pc' = AfterEA(c)
                    ELSE /\ results' = InitResults
                         /\ events' = <<>>
                         /\ pc' = "loop"
                         /\ UNCHANGED <<outcome, lastOp>>

\* one loop iteration of execute_actions, up to its return when the loop ends
\* by break or by an exception
EA_Iterate ==
    /\ pc = "loop"
    /\ idx < Len(actions)
    /\ \E handlerOk \in BOOLEAN, closes \in BOOLEAN, captcha \in BOOLEAN,
          fails \in ShotFailSets :
         LET type == actions[idx + 1]
             open == PageOpen(self, live)
             lv == IF closes THEN live \ {<<"page", self.page>>} ELSE live
             openAfter == PageOpen(self, lv)
             b == LoopBody(results, type, idx + 1, handlerOk, openAfter, captcha, fails)
             handlerFailed == type \notin Handlers \/ ~handlerOk
         IN  /\ handlerOk => CanSucceed(type, open)
             /\ closes => open
             /\ captcha => openAfter
             /\ live' = lv
             /\ dispatched' = dispatched \o
                    [j \in 1..Len(SelectSeq(b.events, LAMBDA ev : ev[1] = "dispatch"))
                         |-> idx + 1]
             /\ failedAt' = IF handlerFailed THEN idx + 1 ELSE failedAt
             /\ captchaSeen' = (handlerFailed /\ captcha)
             /\ idx' = idx + 1
             /\ CASE b.go = "next" ->
                       /\ results' = b.results
                       /\ events' = b.events
                       /\ UNCHANGED <<pc, outcome, lastOp>>
                  [] b.go = "break" ->
                       /\ results' = WithFinalUrl(b.results, self, lv)
                       /\ events' = b.events
                       /\ outcome' = "returned"
                       /\ lastOp' = "execute_actions"
                       /\ pc' = AfterEA(caller)
                  [] b.go = "except" ->
                       LET e == EngineExcept(b.results, b.error, openAfter, fails) IN
                       /\ results' = e.results
                       /\ events' = b.events \o e.events
                       /\ outcome' = IF e.raised THEN "raised" ELSE "returned"
                       /\ lastOp' = "execute_actions"
                       /\ pc' = AfterEA(caller)
    /\ UNCHANGED <<self, constructed, nextId, closeLog, closeHeld, created,
                   caller, actions, teardown, response, closeStreak, lastClosed,
                   probeVars>>

\* the loop has consumed every action: final_url, then return
EA_Finish ==
    /\ pc = "loop"
    /\ idx = Len(actions)
    /\ results' = WithFinalUrl(results, self, live)
    /\ outcome' = "returned"
    /\ lastOp' = "execute_actions"
    /\ pc' = AfterEA(caller)
    /\ UNCHANGED <<engineVars, caller, actions, idx, dispatched, failedAt,
                   captchaSeen, teardown, response, closeStreak, probeVars, events>>

\* ------------------------------------------------------------ the callers
\* controller.close() as a step of a caller
CloseStep(bad) ==
    LET c == Close(self, live, bad) IN
    /\ self' = c.self
    /\ live' = c.live
    /\ closeLog' = c.log
    /\ closeHeld' = c.held
    /\ lastClosed' = nextId

\* a caller that drives the engine's API itself: BrowserController(...)
DirectConstruct ==
    /\ pc = "idle"
    /\ caller = "none"
    /\ caller' = "direct"
    /\ constructed' = TRUE
    /\ self' = NoSession
    /\ UNCHANGED <<live, nextId, closeLog, closeHeld, created, pc, runVars,
                   outcome, lastOp, teardown, response, closeStreak, lastClosed,
                   probeVars>>

\* await controller.start()
DirectStart ==
    /\ pc = "idle"
    /\ caller = "direct"
    /\ nextId < MaxStarts
    /\ \E failStep \in 0..Len(StartSteps) :
       \E bad \in IF failStep = 0 THEN {{}} ELSE FailSets :
         LET st == Start(self, live, nextId + 1, failStep, bad) IN
         /\ self' = st.self
         /\ live' = st.live
         /\ created' = st.created
         /\ closeLog' = IF st.closed THEN st.log ELSE closeLog
         /\ closeHeld' = IF st.closed THEN st.held ELSE closeHeld
         /\ lastClosed' = IF st.closed THEN nextId + 1 ELSE lastClosed
         /\ outcome' = IF st.raised THEN "raised" ELSE "returned"
    /\ nextId' = nextId + 1
    /\ lastOp' = "start"
    /\ closeStreak' = 0
    /\ pc' = "ended"
    /\ UNCHANGED <<constructed, caller, runVars, teardown, response, probeVars>>

\* await controller.close()
DirectClose ==
    /\ pc = "idle"
    /\ caller = "direct"
    /\ \E bad \in FailSets :
         /\ CloseStep(bad)
         /\ outcome' = IF Close(self, live, bad).raised THEN "raised" ELSE "returned"
    /\ lastOp' = "close"
    /\ closeStreak' = IF closeStreak < 2 THEN closeStreak + 1 ELSE closeStreak
    /\ pc' = "ended"
    /\ UNCHANGED <<constructed, nextId, created, caller, runVars, teardown,
                   response, probeVars>>

\* the direct caller has looked at how its call ended and goes on; what the
\* call left behind for inspection (results, logs) is dropped
DirectResume ==
    /\ pc = "ended"
    /\ caller = "direct"
    /\ pc' = "idle"
    /\ actions' = <<>>
    /\ idx' = 0
    /\ results' = InitResults
    /\ dispatched' = <<>>
    /\ failedAt' = 0
    /\ captchaSeen' = FALSE
    /\ events' = <<>>
    /\ closeLog' = <<>>
    /\ closeHeld' = {}
    /\ created' = {}
    /\ outcome' = "none"
    /\ lastOp' = "none"
    /\ UNCHANGED <<self, constructed, live, nextId, caller, teardown, response,
                   closeStreak, lastClosed, probeVars>>

\* await controller.execute_actions(acts)
DirectExecute ==
    /\ pc = "idle"
    /\ caller = "direct"
    /\ \E acts \in ActionLists : EA_Enter("direct", self, acts)
    /\ UNCHANGED <<constructed, caller, teardown, response>>

\* run_workflow(actions): the controller is constructed and execute_actions
\* is entered inside try
RunWorkflowCall ==
    /\ pc = "idle"
    /\ caller = "none"
    /\ caller' = "run_workflow"
    /\ constructed' = TRUE
    /\ \E acts \in ActionLists : EA_Enter("run_workflow", NoSession, acts)
    /\ UNCHANGED <<teardown, response>>

\* run_workflow whose close() follows the call instead of sitting in finally
RunWorkflowCloseAfter ==
    /\ pc = "rw_finally"
    /\ IF outcome = "raised"
       THEN UNCHANGED <<self, live, closeLog, closeHeld, teardown, outcome, lastOp,
                        lastClosed>>
       ELSE /\ \E bad \in FailSets : CloseStep(bad)
            /\ teardown' = TRUE
            /\ lastOp' = "close"
            /\ outcome' = "returned"
    /\ response' = IF outcome = "raised" THEN "raised" ELSE "result"
    /\ pc' = "done"
    /\ UNCHANGED <<constructed, nextId, created, caller, runVars, closeStreak, probeVars>>

\* run_workflow's `finally: await controller.close()`; the result is returned
\* or the exception of execute_actions goes on to the caller
RunWorkflowFinally ==
    /\ pc = "rw_finally"
    /\ \E bad \in FailSets : CloseStep(bad)
    /\ teardown' = TRUE
    /\ lastOp' = "close"
    /\ outcome' = "returned"
    /\ response' = IF outcome = "raised" THEN "raised" ELSE "result"
    /\ pc' = "done"
    /\ UNCHANGED <<constructed, nextId, created, caller, runVars, closeStreak, probeVars>>

\* an endpoint up to its call of controller.execute_actions.  reject: the
\* request is turned down before the try block (HTTPException 400);
\* early: parsing or the constructor raises inside try, so the except clause
\* answers and finally finds controller None
EndpointCall(c, reject, early) ==
    /\ pc = "idle"
    /\ caller = "none"
    /\ caller' = c
    /\ IF reject
       THEN /\ pc' = "done"
            /\ response' = "http_400"
            /\ UNCHANGED <<engineVars, runVars, outcome, lastOp, teardown,
                           closeStreak, probeVars>>
       ELSE IF early
            THEN /\ pc' = "done"
                 /\ response' = "error"
                 /\ UNCHANGED <<engineVars, runVars, outcome, lastOp, teardown,
                                closeStreak, probeVars>>
            ELSE /\ constructed' = TRUE
                 /\ \E acts \in ActionLists : EA_Enter(c, NoSession, acts)
                 /\ UNCHANGED <<teardown, response>>

\* POST /interact
InteractCall == \E reject \in BOOLEAN, early \in BOOLEAN : EndpointCall("interact", reject, early)

\* POST /actions: no check before the try block
ActionsCall == \E early \in BOOLEAN : EndpointCall("actions", FALSE, early)

\* the endpoint between execute_actions and finally: the response is built
\* from the results; an exception (of execute_actions, or while building)
\* is answered by the except clause
EndpointRespond(at, to) ==
    /\ pc = at
    /\ \E buildFails \in BOOLEAN :
         response' = IF outcome = "raised" \/ buildFails THEN "error" ELSE "result"
    /\ pc' = to
    /\ UNCHANGED <<engineVars, runVars, caller, outcome, lastOp, teardown,
                   closeStreak, probeVars>>

\* the endpoint's `finally: if controller: await controller.close()`
EndpointFinally(at) ==
    /\ pc = at
    /\ IF constructed
       THEN /\ \E bad \in FailSets : CloseStep(bad)
            /\ teardown' = TRUE
            /\ lastOp' = "close"
            /\ outcome' = "returned"
       ELSE UNCHANGED <<self, live, closeLog, closeHeld, teardown, outcome, lastOp,
                        lastClosed>>
    /\ pc' = "done"
    /\ UNCHANGED <<constructed, nextId, created, caller, runVars, response,
                   closeStreak, probeVars>>

InteractRespond == EndpointRespond("in_respond", "in_finally")

InteractFinally == EndpointFinally("in_finally")

ActionsRespond == EndpointRespond("ac_respond", "ac_finally")

ActionsFinally == EndpointFinally("ac_finally")

\* the page goes away under the engine (the window is closed, the tab crashes)
PageCloses ==
    /\ pc \in {"idle", "loop"}
    /\ PageOpen(self, live)
    /\ live' = live \ {<<"page", self.page>>}
    /\ UNCHANGED <<self, constructed, nextId, closeLog, closeHeld, created,
                   runVars, callVars, lastClosed, probeVars>>

\* ------------------------------------------------------------ the handlers
\* An action is a dict: a function whose domain is the set of keys it has.
\* The page is the set of selectors that resolve on it (present).

\* the numbers the handlers and the locator use
ScrollMin == 100
ScrollMax == 2000
ScrollDefault == 500
WaitMin == 1000
WaitMax == 10000
WaitDefault == 5000
LocateDefault == 5000
StrategyTimeout == 2000
GotoTimeout == 60000

\* dict.get(k, d)
Get(a, k, d) ==
    IF k \in DOMAIN a THEN a[k] ELSE d

Max(x, y) ==
    IF x >= y THEN x ELSE y

Min(x, y) ==
    IF x <= y THEN x ELSE y

\* a selector string handed to the page by a caller
Css(s) ==
    <<"css", s>>

\* the five selector strings built from an element description, in the order
\* the locator lists them
Templates(desc) ==
    << <<"text= >> visible=true", desc>>,
       <<"[aria-label=] >> visible=true", desc>>,
       <<"[placeholder=] >> visible=true", desc>>,
       <<"text=", desc>>,
       <<":has-text()", desc>> >>

NoTarget == <<"none", "">>

\* one call on the page, the keyboard, the mouse, an element or asyncio.sleep:
\* value is the number handed over, user tells that it was read from the action
PageOp(op, target, value, user) ==
    [op |-> op, target |-> target, value |-> value, user |-> user]

\* the handler returns normally
Returned(ops, element, details) ==
    [ops |-> ops, element |-> element, error |-> "none", details |-> details]

\* the handler raises
Raised(ops, error) ==
    [ops |-> ops, element |-> NoTarget, error |-> error, details |-> <<>>]

\* the strategy list of _locate_element: description templates, then fallbacks
Strategies(a) ==
    LET fb == Get(a, "fallbacks", <<>>) IN
    (IF "element_description" \in DOMAIN a
     THEN Templates(a["element_description"]) ELSE <<>>)
        \o [i \in 1..Len(fb) |-> Css(fb[i])]

\* the loop over the strategies from position n on: a strategy that does not
\* resolve raises, the exception is swallowed and the loop continues
RECURSIVE TryStrategies(_, _, _, _)
TryStrategies(strategies, n, present, ops) ==
    IF n > Len(strategies)
    THEN Raised(ops, "element_not_found")
    ELSE LET w == PageOp("wait_for_selector", strategies[n], StrategyTimeout, FALSE) IN
         IF strategies[n] \in present
         THEN Returned(Append(ops, w), strategies[n], <<>>)
         ELSE TryStrategies(strategies, n + 1, present, Append(ops, w))

\* _locate_element: an explicit selector is awaited outside any try block with
\* the action's own timeout, and its outcome is the locator's outcome
LocateElement(a, present) ==
    IF "selector" \in DOMAIN a
    THEN LET w == PageOp("wait_for_selector", Css(a["selector"]),
                         Get(a, "timeout", LocateDefault), "timeout" \in DOMAIN a) IN
         IF Css(a["selector"]) \in present
         THEN Returned(<<w>>, Css(a["selector"]), <<>>)
         ELSE Raised(<<w>>, "timeout_error")
    ELSE TryStrategies(Strategies(a), 1, present, <<>>)

\* action.get("selector") or action.get("element_description")
ElementName(a) ==
    IF Get(a, "selector", "") # "" THEN a["selector"]
    ELSE Get(a, "element_description", "")

HandleNavigate(a, present) ==
    IF "url" \notin DOMAIN a
    THEN Raised(<<>>, "navigate_requires_url")
    ELSE Returned(<<PageOp("goto", <<"url", a["url"]>>, GotoTimeout, FALSE)>>,
                  NoTarget, [url |-> a["url"], status |-> "loaded"])

HandleInput(a, present) ==
    LET text == IF Get(a, "text", "") # "" THEN a["text"] ELSE Get(a, "value", "") IN
    IF text = ""
    THEN Raised(<<>>, "input_requires_text")
    ELSE LET loc == LocateElement(a, present) IN
         IF loc.error # "none"
         THEN loc
         ELSE Returned(loc.ops \o <<PageOp("click", loc.element, 0, FALSE),
                                    PageOp("type", loc.element, 0, FALSE)>>,
                       loc.element, [element |-> ElementName(a), text |-> text])

HandleClick(a, present) ==
    LET loc == LocateElement(a, present) IN
    IF loc.error # "none"
    THEN loc
    ELSE Returned(loc.ops \o <<PageOp("hover", loc.element, 0, FALSE),
                               PageOp("click", loc.element, 0, FALSE)>>,
                  loc.element, [element |-> ElementName(a)])

HandleSubmit(a, present) ==
    Returned(<<PageOp("press", <<"key", "Enter">>, 0, FALSE)>>, NoTarget,
             [method |-> "keyboard_enter"])

\* the amount goes to the wheel as it is given
HandleScrollUnclamped(a, present) ==
    LET direction == Get(a, "direction", "down")
        amount == Get(a, "amount", ScrollDefault) IN
    Returned(<<PageOp("wheel", NoTarget,
                      IF direction = "down" THEN amount ELSE 0 - amount,
                      "amount" \in DOMAIN a)>>,
             NoTarget, [direction |-> direction, pixels |-> amount])

HandleScroll(a, present) ==
    LET direction == Get(a, "direction", "down")
        amount == Max(ScrollMin, Min(ScrollMax, Get(a, "amount", ScrollDefault))) IN
    Returned(<<PageOp("wheel", NoTarget,
                      IF direction = "down" THEN amount ELSE 0 - amount,
                      "amount" \in DOMAIN a)>>,
             NoTarget, [direction |-> direction, pixels |-> amount])

\* the sleep is bounded below only
HandleWaitNoUpperBound(a, present) ==
    LET timeout == Max(WaitMin, Get(a, "timeout", WaitDefault)) IN
    IF "selector" \in DOMAIN a
    THEN LET w == PageOp("wait_for_selector", Css(a["selector"]), timeout,
                         "timeout" \in DOMAIN a) IN
         IF Css(a["selector"]) \in present
         THEN Returned(<<w>>, NoTarget,
                       [wait_for |-> "selector", selector |-> a["selector"]])
         ELSE Raised(<<w>>, "timeout_error")
    ELSE Returned(<<PageOp("sleep", NoTarget, timeout, "timeout" \in DOMAIN a)>>,
                  NoTarget, [wait_for |-> "timeout", ms |-> timeout])

\* _handle_wait: asyncio.sleep(timeout / 1000) is a sleep of timeout ms
HandleWait(a, present) ==
    LET timeout == Max(WaitMin, Min(WaitMax, Get(a, "timeout", WaitDefault))) IN
    IF "selector" \in DOMAIN a
    THEN LET w == PageOp("wait_for_selector", Css(a["selector"]), timeout,
                         "timeout" \in DOMAIN a) IN
         IF Css(a["selector"]) \in present
         THEN Returned(<<w>>, NoTarget,
                       [wait_for |-> "selector", selector |-> a["selector"]])
         ELSE Raised(<<w>>, "timeout_error")
    ELSE Returned(<<PageOp("sleep", NoTarget, timeout, "timeout" \in DOMAIN a)>>,
                  NoTarget, [wait_for |-> "timeout", ms |-> timeout])

\* the handler lookup and call of _execute_single_action
ExecuteHandler(a, present) ==
    LET type == Get(a, "type", "unknown") IN
    CASE type = "navigate" -> HandleNavigate(a, present)
      [] type = "input" -> HandleInput(a, present)
      [] type = "click" -> HandleClick(a, present)
      [] type = "submit" -> HandleSubmit(a, present)
      [] type = "scroll" -> HandleScroll(a, present)
      [] type = "wait" -> HandleWait(a, present)
      [] OTHER -> Raised(<<>>, "unsupported")

\* ---- the actions and pages the handlers are examined on
CssNames == {"#a", "#b"}
Descriptions == {"Login"}
LocateTimeouts == {1, 50000}
WaitTimeouts == {0 - 1, 0, 999, 1000, 1001, 5000, 9999, 10000, 10001, 50000}
Amounts == {0 - 500, 0, 99, 100, 101, 500, 1999, 2000, 2001, 5000}

RECURSIVE SeqsUpTo(_, _)
SeqsUpTo(S, n) ==
    IF n = 0 THEN {<<>>}
    ELSE LET shorter == SeqsUpTo(S, n - 1) IN
         shorter \cup {Append(q, x) : q \in shorter, x \in S}

FallbackLists == SeqsUpTo(CssNames, MaxFallbacks)

\* the dicts with key k and a value of V, and the dict without the key
Opt(k, V) ==
    {<<>>} \cup {k :> v : v \in V}

Both(S, T) ==
    {s @@ t : s \in S, t \in T}

\* the keys the locator reads
Targets ==
    Both(Opt("selector", CssNames),
         Both(Opt("timeout", LocateTimeouts),
              Both(Opt("element_description", Descriptions),
                   Opt("fallbacks", FallbackLists))))

Typed(type, S) ==
    {("type" :> type) @@ s : s \in S}

HandlerActions ==
    Typed("click", Targets)
        \cup Typed("input", Both(Opt("text", {"hi"}) \cup {"value" :> "hi"}, Targets))
        \cup Typed("navigate", Opt("url", {"https://example.com"}))
        \cup Typed("submit", {<<>>})
        \cup Typed("scroll", Both(Opt("direction", {"down", "up"}), Opt("amount", Amounts)))
        \cup Typed("wait", Both(Opt("selector", CssNames), Opt("timeout", WaitTimeouts)))
        \cup Typed("hover", Opt("selector", CssNames))
        \cup Opt("selector", CssNames)

\* every selector an examined action can hand to the page
PageSelectors ==
    {Css(s) : s \in CssNames}
        \cup {Templates(d)[i] : d \in Descriptions, i \in 1..5}

\* a handler is called for an action on a page
HandlerCall ==
    /\ call.state = "drawn"
    /\ call' = [call EXCEPT !.state = "done",
                            !.out = ExecuteHandler(call.action, call.present)]
    /\ UNCHANGED <<engineVars, runVars, callVars, parse, timing>>

\* -------------------------------------------------------------- the parser
\* An interpretation is the JSON object the language model answered with, a
\* dict like an action.  A function of the parser either returns a dict or
\* raises (KeyError on a missing key).

GeneralWaitDefault == 5000
SearchWaitTimeout == 5000
VerifyTimeout == 3000

Value(d) ==
    [raised |-> FALSE, value |-> d]

Raise ==
    [raised |-> TRUE, value |-> <<>>]

\* an entry of the selector catalog
Elem(sel, fb) ==
    [selector |-> sel, fallbacks |-> fb]

\* SITE_CONFIGS: per domain and page type, the named elements under "actions"
\* (the entry "generic" has no page types and is never looked up by the mapper)
SITE_CONFIGS ==
    ("google.com" :>
        ("search_page" :>
            [actions |->
                [search_box |-> Elem("textarea[name='q']",
                                     <<"[aria-label='Search']", "[title='Search']">>),
                 search_button |-> Elem("input[value='Google Search']",
                                        <<"button[type='submit']">>),
                 result_links |-> Elem("div.g a", <<"h3">>)]]))
    @@ ("amazon.com" :>
        ("search_page" :>
            [actions |->
                [search_box |-> Elem("#twotabsearchtextbox",
                                     <<"input[name='field-keywords']">>),
                 search_button |-> Elem("#nav-search-submit-button",
                                        <<"input.nav-input[type='submit']">>),
                 product_links |-> Elem("div[data-component-type='s-search-result'] a.a-link-normal",
                                        <<"h2 a">>)]])
        @@ ("product_page" :>
            [actions |->
                [add_to_cart |-> Elem("#add-to-cart-button",
                                      <<"#addToCart", "[data-action='add-to-cart']">>),
                 buy_now |-> Elem("#buy-now-button", <<>>)]])
        @@ ("login_page" :>
            [actions |->
                [email_field |-> Elem("#ap_email", <<"input[name='email']">>),
                 password_field |-> Elem("#ap_password", <<"input[name='password']">>),
                 signin_button |-> Elem("#signInSubmit", <<"input[type='submit']">>)]]))
    @@ ("github.com" :>
        ("login_page" :>
            [actions |->
                [username_field |-> Elem("#login_field", <<"input[name='login']">>),
                 password_field |-> Elem("#password", <<"input[name='password']">>),
                 signin_button |-> Elem("input[name='commit']", <<"[value='Sign in']">>)]])
        @@ ("repo_page" :>
            [actions |->
                [clone_button |-> Elem("get-repo", <<"[data-testid='clone-button']">>),
                 issues_tab |-> Elem("#issues-tab", <<"a[href$='/issues']">>)]]))
    @@ ("twitter.com" :>
        ("login_page" :>
            [actions |->
                [username_field |-> Elem("input[autocomplete='username']",
                                         <<"input[name='text']">>),
                 password_field |-> Elem("input[autocomplete='current-password']",
                                         <<"input[name='password']">>)]])
        @@ ("search_page" :>
            [actions |->
                [search_box |-> Elem("input[data-testid='SearchBox_Search_Input']",
                                     <<"[aria-label='Search query']">>)]]))

\* site_urls of map_to_selectors
site_urls ==
    [amazon |-> "https://www.amazon.com",
     google |-> "https://www.google.com",
     github |-> "https://github.com"]

\* f"{site}.com"
SiteDomain(site) ==
    CASE site = "amazon" -> "amazon.com"
      [] site = "google" -> "google.com"
      [] site = "github" -> "github.com"
      [] site = "twitter" -> "twitter.com"
      [] OTHER -> "other.com"

\* site_urls[site] + "/login"
LoginUrl(site) ==
    CASE site = "amazon" -> "https://www.amazon.com/login"
      [] site = "google" -> "https://www.google.com/login"
      [] site = "github" -> "https://github.com/login"

\* the action both error answers of the parser carry
FallbackAction ==
    ("type" :> "navigate") @@ ("url" :> "https://www.google.com")

\* one pass of the loop of generate_general_actions: the dict appended for the
\* action a, nothing for a type the function does not know
GeneralAction(a) ==
    IF "type" \notin DOMAIN a
    THEN Raise
    ELSE CASE a["type"] = "navigate" ->
                IF "url" \in DOMAIN a
                THEN Value(<<("type" :> "navigate") @@ ("url" :> a["url"])>>)
                ELSE Raise
           [] a["type"] = "input" ->
                IF {"element", "text"} \subseteq DOMAIN a
                THEN Value(<<("type" :> "input")
                                @@ ("element_description" :> a["element"])
                                @@ ("text" :> a["text"])
                                @@ ("strategy" :> "best_match")>>)
                ELSE Raise
           [] a["type"] = "click" ->
                IF "element" \in DOMAIN a
                THEN Value(<<("type" :> "click")
                                @@ ("element_description" :> a["element"])
                                @@ ("strategy" :> "best_match")>>)
                ELSE Raise
           [] a["type"] = "wait" ->
                Value(<<("type" :> "wait")
                           @@ ("timeout" :> Get(a, "timeout", GeneralWaitDefault))
                           @@ ("for_element" :> Get(a, "for_element", "None"))>>)
           [] OTHER -> Value(<<>>)

RECURSIVE GenerateFrom(_, _, _)
GenerateFrom(acts, n, out) ==
    IF n > Len(acts)
    THEN Value("actions" :> out)
    ELSE LET g == GeneralAction(acts[n]) IN
         IF g.raised THEN Raise
         ELSE GenerateFrom(acts, n + 1, out \o g.value)

\* generate_general_actions(interpretation)
generate_general_actions(interpretation) ==
    IF "actions" \notin DOMAIN interpretation
    THEN Raise
    ELSE GenerateFrom(interpretation["actions"], 1, <<>>)

\* the four actions of the search intent
SearchActions(site, els, query) ==
    << ("type" :> "navigate") @@ ("url" :> site_urls[site]),
       ("type" :> "input") @@ ("selector" :> els["search_box"].selector)
           @@ ("fallbacks" :> els["search_box"].fallbacks) @@ ("value" :> query),
       ("type" :> "click") @@ ("selector" :> els["search_button"].selector)
           @@ ("fallbacks" :> els["search_button"].fallbacks),
       ("type" :> "wait") @@ ("for_element" :> "None")
           @@ ("timeout" :> SearchWaitTimeout) >>

\* the five actions of the login intent
LoginActions(site, els, username, password) ==
    << ("type" :> "navigate") @@ ("url" :> LoginUrl(site)),
       ("type" :> "input") @@ ("selector" :> els["username_field"].selector)
           @@ ("value" :> username),
       ("type" :> "input") @@ ("selector" :> els["password_field"].selector)
           @@ ("value" :> password),
       ("type" :> "click") @@ ("selector" :> els["login_button"].selector),
       ("type" :> "verify") @@ ("selector" :> els["login_success"].selector)
           @@ ("timeout" :> VerifyTimeout) >>

\* map_to_selectors(interpretation)
map_to_selectors(interpretation) ==
    IF ~({"site", "intent"} \subseteq DOMAIN interpretation)
    THEN Raise
    ELSE LET site == interpretation["site"]
             intent == interpretation["intent"]
             page_type == Get(interpretation, "page_type", intent)
             pages == Get(SITE_CONFIGS, SiteDomain(site), <<>>)
             params == Get(interpretation, "parameters", <<>>)
         IN  IF site \notin DOMAIN site_urls
             THEN Value("error" :> "unsupported_site")
             ELSE IF page_type \notin DOMAIN pages
                  THEN Value("error" :> "unsupported_action")
                  ELSE LET els == pages[page_type].actions IN
                       IF intent = "search"
                       THEN IF /\ {"search_box", "search_button"} \subseteq DOMAIN els
                               /\ "query" \in DOMAIN params
                            THEN Value("actions" :>
                                           SearchActions(site, els, params["query"]))
                            ELSE Raise
                       ELSE IF intent = "login"
                            THEN IF /\ {"username_field", "password_field",
                                         "login_button", "login_success"}
                                            \subseteq DOMAIN els
                                    /\ {"username", "password"} \subseteq DOMAIN params
                                 THEN Value("actions" :>
                                                LoginActions(site, els, params["username"],
                                                             params["password"]))
                                 ELSE Raise
                            ELSE Value("actions" :> <<>>)

\* parse_command once interpret_command has answered: an interpretation with
\* an "error" key is handed back as it is; an exception gives the fallback
parse_command(interpretation) ==
    IF "error" \in DOMAIN interpretation
    THEN interpretation
    ELSE LET r == IF Get(interpretation, "is_general", FALSE)
                  THEN generate_general_actions(interpretation)
                  ELSE map_to_selectors(interpretation) IN
         IF r.raised
         THEN ("error" :> "parsing_error") @@ ("actions" :> <<FallbackAction>>)
         ELSE r.value

\* ---- the interpretations the parser is examined on
LLMActions ==
    {("type" :> "navigate") @@ ("url" :> "https://example.com"),
     ("type" :> "navigate"),
     ("type" :> "input") @@ ("element" :> "Search") @@ ("text" :> "hi"),
     ("type" :> "click") @@ ("element" :> "Login"),
     ("type" :> "wait"),
     ("type" :> "scroll"),
     ("type" :> "verify")}

Interpretations ==
    Both(Opt("error", {"model error"}),
     Both(Opt("is_general", BOOLEAN),
      Both(Opt("intent", {"search", "login", "navigate"}),
       Both(Opt("site", {"amazon", "google", "github", "twitter"}),
        Both(Opt("page_type", {"search_page", "login_page"}),
         Both(Opt("parameters",
                  {<<>>, [query |-> "shoes", username |-> "u", password |-> "p"]}),
              Opt("actions", SeqsUpTo(LLMActions, MaxLLMActions))))))))

\* parse_command handles one interpretation
ParseCall ==
    /\ parse.state = "drawn"
    /\ parse' = [parse EXCEPT !.state = "done",
                              !.out = parse_command(parse.interpretation)]
    /\ UNCHANGED <<engineVars, runVars, callVars, call, timing>>

\* ------------------------------------------------ timestamps and file names
\* Two engine instances share one screenshots directory and one clock, read
\* in whole seconds.

Engines == {1, 2}
NotYet == 0 - 1

\* the action types the timed runs are made of: types whose handler, with the
\* delay before it, can be over within the second of the previous capture
TimedTypes == {"click", "input"}

\* nothing constructed, no file written
InitTiming ==
    [now |-> 0,
     start_time |-> [e \in Engines |-> NotYet],
     entry |-> [e \in Engines |-> NotYet],
     steps |-> [e \in Engines |-> 0],
     duration |-> [e \in Engines |-> NotYet],
     elapsed |-> [e \in Engines |-> NotYet],
     files |-> {},
     clash |-> FALSE]

\* _take_screenshot: the path is screenshots_dir / f"{name}_{int(time.time())}.png";
\* the name is a tag with the action's type or the step number
Path(tag, type, n, t) ==
    <<tag, type, n, t>>

\* page.screenshot(path=...) writes the files; writing an existing path
\* replaces a file.  files holds the paths of the current second, no later
\* capture can name an older one
Written(tm, paths) ==
    [tm EXCEPT !.files = @ \cup paths,
               !.clash = @ \/ (paths \cap tm.files # {})]

\* results["duration"] = round(time.time() - self.start_time, 2), whole seconds
\* being their own rounding; elapsed is the time since the call was entered
RunReturned(tm, e) ==
    [tm EXCEPT !.duration[e] = tm.now - tm.start_time[e],
               !.elapsed[e] = tm.now - tm.entry[e],
               !.entry[e] = NotYet]

TimingStep(tm) ==
    /\ timing' = tm
    /\ UNCHANGED <<engineVars, runVars, callVars, call, parse>>

\* a second passes
ClockTick ==
    /\ timing.now < MaxTime
    /\ TimingStep([timing EXCEPT !.now = @ + 1, !.files = {}])

\* BrowserController(): self.start_time = time.time()
TimedConstruct ==
    \E e \in Engines :
        /\ timing.start_time[e] = NotYet
        /\ TimingStep([timing EXCEPT !.start_time[e] = timing.now])

\* execute_actions is entered
TimedEnter ==
    \E e \in Engines :
        /\ timing.start_time[e] # NotYet
        /\ timing.entry[e] = NotYet
        /\ TimingStep([timing EXCEPT !.entry[e] = timing.now, !.steps[e] = 0,
                                     !.duration[e] = NotYet, !.elapsed[e] = NotYet])

\* one action succeeds on an open page: action_<type>, then step_<n>
TimedAction ==
    \E e \in Engines, type \in TimedTypes :
        /\ timing.entry[e] # NotYet
        /\ timing.steps[e] < MaxSteps
        /\ TimingStep([Written(timing,
                               {Path("action", type, 0, timing.now),
                                Path("step", "", timing.steps[e] + 1, timing.now)})
                          EXCEPT !.steps[e] = @ + 1])

\* execute_actions returns: after the loop, or after a failed action with its
\* failed_<type> and error_final screenshots
TimedReturn ==
    \E e \in Engines, failed \in BOOLEAN, type \in TimedTypes :
        /\ timing.entry[e] # NotYet
        /\ TimingStep(RunReturned(
               IF failed
               THEN Written(timing, {Path("failed", type, 0, timing.now),
                                     Path("error_final", "", 0, timing.now)})
               ELSE timing, e))

\* ------------------------------------------------------- the specification
InitEngine ==
    /\ self = NoSession
    /\ constructed = FALSE
    /\ live = {}
    /\ nextId = 0
    /\ closeLog = <<>>
    /\ closeHeld = {}
    /\ created = {}
    /\ caller = "none"
    /\ pc = "idle"
    /\ actions = <<>>
    /\ idx = 0
    /\ results = InitResults
    /\ dispatched = <<>>
    /\ failedAt = 0
    /\ captchaSeen = FALSE
    /\ outcome = "none"
    /\ lastOp = "none"
    /\ teardown = FALSE
    /\ response = "none"
    /\ closeStreak = 0
    /\ lastClosed = 0
    /\ events = <<>>

Init ==
    /\ InitEngine
    /\ call = NoCall
    /\ parse = NoParse
    /\ timing = InitTiming

Next ==
    \/ DirectConstruct
    \/ DirectStart
    \/ DirectClose
    \/ DirectExecute
    \/ DirectResume
    \/ RunWorkflowCall
    \/ RunWorkflowFinally
    \/ InteractCall
    \/ InteractRespond
    \/ InteractFinally
    \/ ActionsCall
    \/ ActionsRespond
    \/ ActionsFinally
    \/ EA_Iterate
    \/ EA_Finish
    \/ PageCloses

Spec == Init /\ [][Next]_vars

\* the entry points alone: run_workflow and the two endpoints, each a
\* coroutine the event loop runs on whenever its awaited operation is done,
\* hence weak fairness of their steps
EntryPoints == {"run_workflow", "interact", "actions"}

EntrySteps ==
    \/ RunWorkflowCall
    \/ RunWorkflowFinally
    \/ InteractCall
    \/ InteractRespond
    \/ InteractFinally
    \/ ActionsCall
    \/ ActionsRespond
    \/ ActionsFinally
    \/ EA_Iterate
    \/ EA_Finish

EntryNext == EntrySteps \/ PageCloses

EntrySpec == Init /\ [][EntryNext]_vars /\ WF_vars(EntrySteps)

\* the handlers on their own: an action and a page are given, the handler of
\* the action's type runs once
HandlerInit ==
    /\ InitEngine
    /\ call \in [state : {"drawn"}, action : HandlerActions,
                  present : SUBSET PageSelectors, out : {<<>>}]
    /\ parse = NoParse
    /\ timing = InitTiming

HandlerNext == HandlerCall

HandlerSpec == HandlerInit /\ [][HandlerNext]_vars

\* the parser on its own: an interpretation is given, parse_command runs once
ParserInit ==
    /\ InitEngine
    /\ call = NoCall
    /\ parse \in [state : {"drawn"}, interpretation : Interpretations, out : {<<>>}]
    /\ timing = InitTiming

ParserNext == ParseCall

ParserSpec == ParserInit /\ [][ParserNext]_vars

\* the timestamps on their own
TimeNext ==
    \/ ClockTick
    \/ TimedConstruct
    \/ TimedEnter
    \/ TimedAction
    \/ TimedReturn

TimeSpec == Init /\ [][TimeNext]_vars

\* ------------------------------------------------------------- the claims
\* execute_actions has handed a results dict back to its caller
EAReturned == lastOp = "execute_actions" /\ outcome = "returned"

\* C1: when the action at 0-based index i is the first to fail, the returned
\* 'actions' list has exactly i+1 entries, the last one with success=false,
\* and the run's success is false.
C1_FailedActionRecorded ==
    (EAReturned /\ failedAt # 0) =>
        /\ Len(results.actions) = failedAt
        /\ ~results.actions[failedAt].success
        /\ ~results.success

\* C2: once an action of a run has failed, the loop is over and no later
\* action of the list has been handed to a handler, CAPTCHA marker or not.
C2_NoDispatchAfterFailure ==
    failedAt # 0 =>
        /\ pc # "loop"
        /\ \A j \in 1..Len(dispatched) : dispatched[j] <= failedAt

C2_Witness ==
    /\ lastOp = "execute_actions"
    /\ failedAt = 1
    /\ Len(actions) = 2
    /\ actions[2] \in Handlers
    /\ captchaSeen

\* C3 as stated: on every return of execute_actions, success is true iff
\* every entry of 'actions' has success=true.
C3_SuccessIffAllSucceeded ==
    EAReturned =>
        (results.success <=>
            \A j \in 1..Len(results.actions) : results.actions[j].success)

\* C3 as amended: on every return of execute_actions, success is true iff
\* every entry of 'actions' has success=true and the result carries no
\* top-level error.
C3_SuccessIffAllSucceededNoError ==
    EAReturned =>
        (results.success <=>
            /\ \A j \in 1..Len(results.actions) : results.actions[j].success
            /\ results.error = "none")

C3_Witness ==
    /\ EAReturned
    /\ ~results.success
    /\ Len(results.actions) = 1
    /\ failedAt = 2

\* C4: execute_actions never raises to its caller.
C4_NeverRaises == lastOp = "execute_actions" => outcome # "raised"

\* C5: when an action fails while a CAPTCHA marker is in the page, the
\* returned result carries status 'captcha_required'.
C5_CaptchaStatus ==
    (EAReturned /\ failedAt # 0 /\ captchaSeen) =>
        results.status = "captcha_required"

\* C6 as stated: for the empty action list execute_actions returns
\* success=true with empty 'actions' and 'screenshots'.
C6_EmptyListSucceeds ==
    (lastOp = "execute_actions" /\ actions = <<>>) =>
        /\ outcome = "returned"
        /\ results.success
        /\ results.actions = <<>>
        /\ results.screenshots = <<>>

\* C6 as amended: for the empty action list execute_actions returns with
\* empty 'actions' and 'screenshots'; success is true unless the session
\* could not be started inside the call, and then the result is the failed
\* one of the except clause (success=false, status 'failed', the error).
C6_EmptyListResult ==
    (lastOp = "execute_actions" /\ actions = <<>>) =>
        /\ outcome = "returned"
        /\ results.actions = <<>>
        /\ results.screenshots = <<>>
        /\ results.success <=> results.error = "none"
        /\ ~results.success =>
               (results.error = "start_error" /\ results.status = "failed")

C6_Witness ==
    /\ EAReturned
    /\ actions = <<>>
    /\ results.success
    /\ results.final_url # None

\* C7: close() called twice in a row raises neither time, leaves page,
\* context, browser and playwright None both times, and the second call
\* releases nothing.
C7_CloseIdempotent ==
    closeStreak >= 1 =>
        /\ self = NoSession
        /\ pc = "ended" =>
               /\ lastOp = "close"
               /\ outcome = "returned"
               /\ closeStreak = 2 => closeLog = <<>>

C7_Witness ==
    /\ closeStreak = 2
    /\ pc = "ended"
    /\ nextId > 0
    /\ live # {}

\* C8: in close(), a failing release does not keep the later held resources
\* from having their release attempted.
C8_EveryHeldReleaseAttempted ==
    lastOp = "close" =>
        \A k \in closeHeld : \E j \in 1..Len(closeLog) : closeLog[j].kind = k

\* C9: when start() fails, every resource it had created has had its release
\* attempted and all four references are None as the exception reaches the
\* caller.
C9_StartFailureReleasesAll ==
    (lastOp = "start" /\ outcome = "raised") =>
        /\ self = NoSession
        /\ \A r \in created :
               \E j \in 1..Len(closeLog) :
                   closeLog[j].kind = r[1] /\ closeLog[j].id = r[2]

\* C10: once run_workflow or an endpoint has constructed a BrowserController,
\* the call ends and the controller's close() is called on the way out: no
\* ended call leaves a constructed controller unclosed, whatever the exit
\* path.
C10_TeardownOnEveryExit ==
    /\ []((pc = "done" /\ constructed) =>
            (teardown /\ lastOp = "close" /\ self = NoSession))
    /\ (constructed /\ caller \in EntryPoints) ~> (pc = "done" /\ teardown)

C10_Witness ==
    /\ pc = "done"
    /\ caller = "run_workflow"
    /\ response = "raised"
    /\ teardown


\* the resources of kind browser or context that are launched and unreleased
UnreleasedSessions(lv) ==
    {r \in lv : r[1] \in {"browser", "context"}}

\* C11: a start() (called directly or by execute_actions for a missing or closed
\* page) launches a driver, browser or context only while no browser or context
\* launched earlier by the same instance is still unreleased.
C11_OneLiveSession ==
    [][(nextId' = nextId + 1 /\ created' # {}) => UnreleasedSessions(live) = {}]_vars

\* C12: once close() has run, every reference the engine holds, and so the page a
\* handler of a later execute_actions operates on, belongs to a session started
\* after that close(): the loop dispatches only after a full start().
C12_NoUseAfterClose ==
    /\ \A k \in Kinds : self[k] # None => self[k] > lastClosed
    /\ (pc = "loop" /\ lastClosed > 0) =>
           \A k \in Kinds : self[k] = self["page"] /\ self[k] > lastClosed

\* an execute_actions after a close() has dispatched a handler on a fresh session
C12_Witness ==
    /\ lastClosed > 0
    /\ lastOp = "execute_actions"
    /\ dispatched # <<>>
    /\ self["page"] > lastClosed

\* the candidates of an action in the priority order of the locator: the
\* explicit selector, the description templates, the fallbacks
Candidates(a) ==
    (IF "selector" \in DOMAIN a THEN <<Css(a["selector"])>> ELSE <<>>)
        \o Strategies(a)

\* the selectors the last handler call awaited, in the order of the calls
Tried ==
    LET waits == SelectSeq(call.out.ops, LAMBDA o : o.op = "wait_for_selector") IN
    [i \in 1..Len(waits) |-> waits[i].target]

\* the last handler call was a click or an input that went to the locator
Located ==
    /\ call.state = "done"
    /\ Get(call.action, "type", "unknown") \in {"click", "input"}
    /\ call.out.error # "input_requires_text"

\* some candidate of the action resolves on the page
SomeResolves ==
    \E i \in 1..Len(Candidates(call.action)) : Candidates(call.action)[i] \in call.present

\* the position of the first candidate that resolves
FirstResolving ==
    CHOOSE i \in 1..Len(Candidates(call.action)) :
        /\ Candidates(call.action)[i] \in call.present
        /\ \A j \in 1..(i - 1) : Candidates(call.action)[j] \notin call.present

\* C13: when the explicit selector of a click or input action does not resolve
\* but a description template or a fallback does, the locator swallows the
\* failure and the handler gets the element of that later strategy.
C13_SelectorFailureSwallowed ==
    (/\ Located
     /\ "selector" \in DOMAIN call.action
     /\ Css(call.action["selector"]) \notin call.present
     /\ SomeResolves)
        => /\ call.out.error = "none"
           /\ call.out.element = Candidates(call.action)[FirstResolving]

\* C14: the locator tries the candidates in priority order, each at most once,
\* stops at the first one that resolves and returns its element; with only the
\* fallbacks #a, #b and only #b on the page it returns the element of #b.
C14_FirstResolvingCandidate ==
    Located =>
        /\ Len(Tried) <= Len(Candidates(call.action))
        /\ Tried = SubSeq(Candidates(call.action), 1, Len(Tried))
        /\ SomeResolves =>
               /\ Len(Tried) = FirstResolving
               /\ call.out.error = "none"
               /\ call.out.element = Candidates(call.action)[FirstResolving]

\* C15: when no strategy locates the target of a click or input action (an
\* explicit selector missing from the page included, and an action with no
\* selector, description or fallbacks included), the error is the "element not
\* found" error that carries the action.
C15_ElementNotFoundError ==
    (Located /\ ~SomeResolves) => call.out.error = "element_not_found"

\* C16: an action whose type has no handler (a missing type reads "unknown")
\* fails with the "unsupported action type" error, no handler is run for it,
\* and the run ends there as a failed run.
C16_UnsupportedTypeEndsRun ==
    (failedAt # 0 /\ actions[failedAt] \notin Handlers) =>
        /\ pc # "loop"
        /\ idx = failedAt
        /\ \A j \in 1..Len(dispatched) : dispatched[j] # failedAt
        /\ Len(results.actions) = failedAt - 1
        /\ EAReturned =>
               /\ ~results.success
               /\ results.status = "failed"
               /\ results.error = "unsupported"

\* a run returned after an action of a type without handler, with earlier
\* actions done
C16_Witness ==
    /\ EAReturned
    /\ failedAt = 2
    /\ actions[failedAt] = "unknown"
    /\ results.error = "unsupported"
    /\ dispatched = <<1>>

\* C17: the scroll handler hands the wheel the amount (500 when absent) clamped
\* to [100, 2000], positive for direction "down" (the default) and negative
\* otherwise, and reports the clamped amount as "pixels"; 5000 gives 2000.
C17_ScrollClamped ==
    (call.state = "done" /\ Get(call.action, "type", "unknown") = "scroll") =>
        LET given == IF "amount" \in DOMAIN call.action
                     THEN call.action["amount"] ELSE 500
            pixels == IF given < 100 THEN 100
                      ELSE IF given > 2000 THEN 2000 ELSE given
            down == "direction" \notin DOMAIN call.action
                        \/ call.action["direction"] = "down"
        IN  /\ call.out.error = "none"
            /\ Len(call.out.ops) = 1
            /\ call.out.ops[1].op = "wheel"
            /\ call.out.ops[1].value = IF down THEN pixels ELSE 0 - pixels
            /\ call.out.details["pixels"] = pixels
            /\ given = 5000 => pixels = 2000

\* a scroll up by 5000 has moved the wheel by -2000
C17_Witness ==
    /\ call.state = "done"
    /\ Get(call.action, "type", "unknown") = "scroll"
    /\ Get(call.action, "amount", 0) = 5000
    /\ Get(call.action, "direction", "down") = "up"
    /\ call.out.ops[1].value = 0 - 2000
    /\ call.out.details["pixels"] = 2000

\* C18: a wait action without selector sleeps its timeout (5000 when absent)
\* clamped to [1000, 10000] ms and reports that number as "ms"; 50000 gives
\* 10000.
C18_WaitClamped ==
    (/\ call.state = "done"
     /\ Get(call.action, "type", "unknown") = "wait"
     /\ "selector" \notin DOMAIN call.action) =>
        LET given == IF "timeout" \in DOMAIN call.action
                     THEN call.action["timeout"] ELSE 5000
            ms == IF given < 1000 THEN 1000
                  ELSE IF given > 10000 THEN 10000 ELSE given
        IN  /\ call.out.error = "none"
            /\ Len(call.out.ops) = 1
            /\ call.out.ops[1].op = "sleep"
            /\ call.out.ops[1].value = ms
            /\ call.out.details["ms"] = ms
            /\ given = 50000 => ms = 10000

\* a wait of 50000 ms has slept 10000 ms
C18_Witness ==
    /\ call.state = "done"
    /\ Get(call.action, "type", "unknown") = "wait"
    /\ "selector" \notin DOMAIN call.action
    /\ Get(call.action, "timeout", 0) = 50000
    /\ call.out.ops[1].value = 10000
    /\ call.out.details["ms"] = 10000

\* C19: every timeout or amount read from the action is within the engine's
\* bounds when it reaches the page: a wheel distance within [100, 2000], a sleep
\* or a selector wait (the locator's wait for an explicit selector included)
\* within [1000, 10000].
C19_UserNumbersClamped ==
    call.state = "done" =>
        \A i \in 1..Len(call.out.ops) :
            LET o == call.out.ops[i] IN
            o.user =>
                IF o.op = "wheel"
                THEN (100 <= o.value /\ o.value <= 2000)
                         \/ (0 - 2000 <= o.value /\ o.value <= 0 - 100)
                ELSE 1000 <= o.value /\ o.value <= 10000

\* C20: when execute_actions returns after the loop has ended, by completion or
\* by a failed action, and the page is open, final_url is the page's URL.
C20_FinalUrlOnEveryExit ==
    (/\ EAReturned
     /\ results.success \/ failedAt # 0
     /\ PageOpen(self, live))
        => results.final_url = self.page

\* C21: a failing screenshot changes nothing: every action whose handler
\* succeeded is recorded with success=true, and a run in which no handler
\* failed goes through the whole list and returns success=true.
C21_ScreenshotFailureNotFatal ==
    /\ \A j \in 1..Len(dispatched) :
           dispatched[j] # failedAt =>
               /\ Len(results.actions) >= dispatched[j]
               /\ results.actions[dispatched[j]].success
    /\ (/\ lastOp = "execute_actions"
        /\ pc # "loop"
        /\ failedAt = 0
        /\ results.error # "start_error") =>
           /\ outcome = "returned"
           /\ idx = Len(actions)
           /\ results.success

\* C24: a returned result with status "failed" and a top-level error comes from
\* an exception outside any handler, is unsuccessful and holds at most one final
\* screenshot; a handler's failure is a failed entry of 'actions' and leaves no
\* top-level error.
C24_HandlerFailureIsActionResult ==
    EAReturned =>
        /\ (results.status = "failed" /\ results.error # "none") =>
               /\ ~results.success
               /\ failedAt = 0
               /\ Len(SelectSeq(results.screenshots,
                                LAMBDA s : s[1] = "error_final")) <= 1
        /\ failedAt # 0 =>
               /\ results.error = "none"
               /\ Len(results.actions) = failedAt
               /\ ~results.actions[failedAt].success

\* the events of the latest iteration of the given kind
EventsOf(kind) ==
    SelectSeq(events, LAMBDA ev : ev[1] = kind)

\* C22: every screenshot capture, on the success path, the failed-action path
\* and the engine-level error path, is started with a page that is held and open.
C22_ShotsOnlyOnOpenPage ==
    \A i \in 1..Len(events) : events[i][1] = "shot" => events[i][3]

\* a failed action on an open page has had its failed_ and error_final captures
C22_Witness ==
    /\ failedAt # 0
    /\ \E i \in 1..Len(events) : events[i] = Event("shot", "failed", TRUE)
    /\ \E i \in 1..Len(events) : events[i] = Event("shot", "error_final", TRUE)

\* the step screenshots of the result, in order
StepShots ==
    SelectSeq(results.screenshots, LAMBDA s : s[1] = "step")

\* dispatch in list order after one delay each, and the k-th result is the result
\* of the k-th action
InOrderAfterDelay ==
    /\ Len(EventsOf("delay")) <= 1
    /\ \A i \in 1..Len(events) :
           events[i][1] = "dispatch" => (i = 2 /\ events[1][1] = "delay")
    /\ \A i \in 1..Len(dispatched) : \A j \in 1..Len(dispatched) :
           i < j => dispatched[i] < dispatched[j]
    /\ Len(results.actions) <= Len(actions)
    /\ \A k \in 1..Len(results.actions) : results.actions[k].action = actions[k]

C27_NoRetry ==
    /\ Len(EventsOf("dispatch")) <= 1
    /\ \A i \in 1..Len(dispatched) : \A j \in 1..Len(dispatched) :
           i # j => dispatched[i] # dispatched[j]
    /\ failedAt # 0 => (pc # "loop" /\ idx = failedAt)

\* a handler has failed after an earlier action was done
C27_Witness ==
    /\ failedAt = 2
    /\ actions[failedAt] \in Handlers
    /\ dispatched = <<1, 2>>
    /\ pc # "loop"

\* C25: every action of a list that parse_command hands back has one of the six
\* types the engine has a handler for.
C25_ParsedTypesHandled ==
    (parse.state = "done" /\ "actions" \in DOMAIN parse.out) =>
        \A i \in 1..Len(parse.out["actions"]) :
            Get(parse.out["actions"][i], "type", "unknown") \in Handlers

\* C23: no screenshot capture, of one run or of two engine instances sharing the
\* screenshots directory, writes to the path of another capture.
C23_PathsNeverCollide ==
    ~timing.clash

\* C28: the duration of a result is the time between the entry of that
\* execute_actions call and its return, whatever passed before the call.
C28_DurationIsRunTime ==
    \A e \in Engines :
        timing.duration[e] # NotYet => timing.duration[e] = timing.elapsed[e]

=============================================================================
